---- MODULE Spec2Model ----
(***************************************************************************)
(* Finite fields GF(p^m) (FiniteField.py), exact linear algebra and        *)
(* polynomial utilities (utils.py) and the Reed-Solomon code with          *)
(* Berlekamp-Welch decoding (ReedSolomon.py).                              *)
(*                                                                         *)
(* A field element is the sequence of its m coefficients (index 1 is the   *)
(* constant term, the code's coefs[0]).  A Python list is a sequence; the  *)
(* code's 0-based position i is the sequence's position i+1.               *)
(* The outcome of a call is a record [exc, val]: exc = "none" and val the  *)
(* returned value, or exc the name of the exception raised and val = <<>>; *)
(* msg is the exception's message where the model tells messages apart.    *)
(***************************************************************************)
EXTENDS Integers, Sequences, FiniteSets, TLC

VARIABLES
    field,      \* the FiniteField object
    rs,         \* the ReedSolomonCode object
    call,       \* the last call made: its name and its arguments as passed
    mem,        \* the caller's lists after the call (Python lists are mutable)
    ret         \* the outcome of the last call

vars == <<field, rs, call, mem, ret>>

Ok(v) == [exc |-> "none", val |-> v, msg |-> ""]
Raise(e) == [exc |-> e, val |-> <<>>, msg |-> ""]
RaiseMsg(e, msg) == [exc |-> e, val |-> <<>>, msg |-> msg]

Range(s) == {s[i] : i \in DOMAIN s}

RECURSIVE SumSeq(_)
SumSeq(s) == IF s = <<>> THEN 0 ELSE Head(s) + SumSeq(Tail(s))

RECURSIVE IntPow(_, _)
IntPow(x, e) == IF e = 0 THEN 1 ELSE x * IntPow(x, e - 1)

(***************************************************************************)
(* Python floats among the discrete logs: a log is <<"int", i>>, or one of *)
(* the floats -inf, inf, nan (second component 0).                         *)
(***************************************************************************)
LInt(i) == <<"int", i>>
NegInf == <<"-inf", 0>>
PosInf == <<"inf", 0>>
NaN == <<"nan", 0>>
IsInt(v) == v[1] = "int"

\* log_self + log_other (logs are ints or -inf)
LogAdd(x, y) ==
    IF IsInt(x) /\ IsInt(y) THEN LInt(x[2] + y[2]) ELSE NegInf

\* log_self - log_other: -inf - -inf is nan, int - -inf is inf
LogSub(x, y) ==
    IF IsInt(x) /\ IsInt(y) THEN LInt(x[2] - y[2])
    ELSE IF IsInt(y) THEN NegInf
    ELSE IF IsInt(x) THEN PosInf
    ELSE NaN

\* log_self * exponent: -inf * 0 is nan, -inf * negative is inf
LogScale(x, e) ==
    IF IsInt(x) THEN LInt(x[2] * e)
    ELSE IF e > 0 THEN NegInf
    ELSE IF e = 0 THEN NaN
    ELSE PosInf

(***************************************************************************)
(* FiniteFieldElem                                                         *)
(***************************************************************************)

\* a list given by a rule, as the explicit list of its items: every item is
\* computed once, when the list is built
List(s) == s \o <<>>

\* Op of the value v, with v computed once however often Op refers to it
With(v, Op(_)) == CHOOSE out \in {Op(x) : x \in {v}} : TRUE

\* FiniteFieldElem(field, val) with val a list: every coefficient mod p
ElemList(F, val) ==
    IF Len(val) # F.m THEN Raise("ValueError")
    ELSE Ok(List([i \in 1..F.m |-> val[i] % F.p]))

\* FiniteFieldElem(field, val) with val an int: padded with zeros
ElemInt(F, v) == ElemList(F, [i \in 1..F.m |-> IF i = 1 THEN v ELSE 0])

\* the elements the code builds from the ints 0 and 1 (never raises)
Zero(F) == ElemInt(F, 0).val
One(F) == ElemInt(F, 1).val

\* elem == other for an int other
EqInt(a, i) == a[1] = i /\ SumSeq(Tail(a)) = 0

\* bool(elem)
Truthy(a) == ~EqInt(a, 0)

Add(F, a, b) == ElemList(F, [i \in 1..F.m |-> a[i] + (b[i] % F.p)]).val

Sub(F, a, b) == ElemList(F, [i \in 1..F.m |-> a[i] - (b[i] % F.p)]).val

Neg(F, a) == ElemList(F, [i \in 1..F.m |-> 0 - a[i]]).val

\* the coefficient of x^i (0-based i) of the product: sum of a_j * b_(i-j) % p
ConvCoef(F, a, b, i) ==
    SumSeq([j \in 1..(i + 1) |->
              IF j - 1 < F.m /\ i - (j - 1) < F.m
              THEN (a[j] * b[i - (j - 1) + 1]) % F.p
              ELSE 0])

\* one long-division step: subtract multiplier * modulus * x^bottom_term
ReduceStep(F, c, top_term) ==
    LET multiplier == c[top_term + 1]
        bottom_term == top_term - F.m
    IN List([i \in DOMAIN c |->
          IF i - 1 >= bottom_term /\ i - 1 <= bottom_term + F.m
          THEN (c[i] - multiplier * F.primitive_poly[i - bottom_term]) % F.p
          ELSE c[i]])

\* for top_term in range(2*m-2, m-1, -1)
RECURSIVE ReduceFrom(_, _, _)
ReduceFrom(F, c, top_term) ==
    IF top_term < F.m THEN c
    ELSE With(ReduceStep(F, c, top_term), LAMBDA stepped :
           ReduceFrom(F, stepped, top_term - 1))

MulDirectNoReduce(F, a, b) ==
    With(List([i \in 1..(2 * F.m - 1) |-> ConvCoef(F, a, b, i - 1)]),
         LAMBDA new_coefs : ElemList(F, SubSeq(new_coefs, 1, F.m)).val)

\* __mul__ without a log table: multiply and reduce directly
MulDirect(F, a, b) ==
    With(List([i \in 1..(2 * F.m - 1) |-> ConvCoef(F, a, b, i - 1)]),
         LAMBDA new_coefs :
      With(ReduceFrom(F, new_coefs, 2 * F.m - 2), LAMBDA reduced :
        ElemList(F, SubSeq(reduced, 1, F.m)).val))

(***************************************************************************)
(* FiniteField                                                             *)
(***************************************************************************)

\* field.log(elem)
Log(F, elem) ==
    IF ~F.has_log_table THEN Raise("ValueError")
    ELSE IF elem \notin DOMAIN F.log_table THEN Raise("ValueError")
    ELSE Ok(F.log_table[elem])

InverseLogOffByOne(F, v) ==
    IF ~F.has_log_table THEN Raise("ValueError")
    ELSE IF IsInt(v) THEN Ok(F.inverse_log_table[LInt((v[2] + 1) % (F.q - 1))])
    ELSE IF v \in DOMAIN F.inverse_log_table THEN Ok(F.inverse_log_table[v])
    ELSE Raise("KeyError")

\* field.inverse_log(v): an int is reduced mod q-1, a float looked up as it is
InverseLog(F, v) ==
    IF ~F.has_log_table THEN Raise("ValueError")
    ELSE IF IsInt(v) THEN Ok(F.inverse_log_table[LInt(v[2] % (F.q - 1))])
    ELSE IF v \in DOMAIN F.inverse_log_table THEN Ok(F.inverse_log_table[v])
    ELSE Raise("KeyError")

MulNoReduce(F, a, b) ==
    IF F.has_log_table
    THEN LET log_self == Log(F, a)
             log_other == Log(F, b)
         IN IF log_self.exc # "none" THEN log_self
            ELSE IF log_other.exc # "none" THEN log_other
            ELSE InverseLog(F, LogAdd(log_self.val, log_other.val))
    ELSE Ok(MulDirectNoReduce(F, a, b))

\* __mul__ of two elements of the field
Mul(F, a, b) ==
    IF F.has_log_table
    THEN LET log_self == Log(F, a)
             log_other == Log(F, b)
         IN IF log_self.exc # "none" THEN log_self
            ELSE IF log_other.exc # "none" THEN log_other
            ELSE InverseLog(F, LogAdd(log_self.val, log_other.val))
    ELSE Ok(MulDirect(F, a, b))

DivAddsLogs(F, a, b) ==
    IF F.has_log_table
    THEN LET log_self == Log(F, a)
             log_other == Log(F, b)
         IN IF log_self.exc # "none" THEN log_self
            ELSE IF log_other.exc # "none" THEN log_other
            ELSE InverseLog(F, LogAdd(log_self.val, log_other.val))
    ELSE Raise("ValueError")

\* __truediv__ of two elements of the field
Div(F, a, b) ==
    IF F.has_log_table
    THEN LET log_self == Log(F, a)
             log_other == Log(F, b)
         IN IF log_self.exc # "none" THEN log_self
            ELSE IF log_other.exc # "none" THEN log_other
            ELSE InverseLog(F, LogSub(log_self.val, log_other.val))
    ELSE Raise("ValueError")

\* check_arith_compatibility(other, op_str) for an int other: field(other)
CheckArithCompatibility(F, other) == ElemInt(F, other).val

\* field.log(other) for an int other: an int is not a key of _log_table,
\* whose keys are elements hashed by their printed form
LogOfInt(F, other) == Raise("ValueError")

\* self + other, self - other, self * other for an int other: the operation
\* goes on with the element that check_arith_compatibility returned
AddInt(F, a, other) == Ok(Add(F, a, CheckArithCompatibility(F, other)))
SubInt(F, a, other) == Ok(Sub(F, a, CheckArithCompatibility(F, other)))
MulInt(F, a, other) == Mul(F, a, CheckArithCompatibility(F, other))

\* self / other for an int other: __truediv__ drops the element that
\* check_arith_compatibility returned and takes the log of the int
DivInt(F, a, other) ==
    IF F.has_log_table
    THEN LET log_self == Log(F, a)
             log_other == LogOfInt(F, other)
         IN IF log_self.exc # "none" THEN log_self
            ELSE IF log_other.exc # "none" THEN log_other
            ELSE InverseLog(F, LogSub(log_self.val, log_other.val))
    ELSE Raise("ValueError")

\* power *= self, exponent times, starting from the element 1 (no log table)
RECURSIVE PowLoop(_, _, _, _)
PowLoop(F, power, a, i) ==
    IF i = 0 THEN power
    ELSE With(MulDirect(F, power, a), LAMBDA product :
           PowLoop(F, product, a, i - 1))

\* __pow__ with an int exponent
Pow(F, a, exponent) ==
    IF F.has_log_table
    THEN LET log_self == Log(F, a)
         IN IF log_self.exc # "none" THEN log_self
            ELSE InverseLog(F, LogScale(log_self.val, exponent))
    ELSE IF exponent < 0 THEN Raise("ValueError")
    ELSE Ok(PowLoop(F, One(F), a, exponent))

\* the truth value of self.primitive_elem: None is false, an element is bool()
TruthyOrNone(x) == x # <<>> /\ Truthy(x)

\* the t-th tuple of itertools.product(range(p), repeat = m)
ProductCoefs(F, t) == [i \in 1..F.m |-> (t \div IntPow(F.p, F.m - i)) % F.p]

\* generated_elems: elem, elem^2, ... until the next product is elem again
RECURSIVE GenerateCycle(_, _, _)
GenerateCycle(F, elem, generated_elems) ==
    With(MulDirect(F, generated_elems[Len(generated_elems)], elem),
         LAMBDA next :
      IF next # elem
      THEN GenerateCycle(F, elem, Append(generated_elems, next))
      ELSE generated_elems)

\* the search loop of find_primitive_elem from the t-th tuple on, with the
\* keys of order_of_elems; <<>> (None) when the loop ends without a find
RECURSIVE SearchFrom(_, _, _)
SearchFrom(F, t, order_of_elems) ==
    IF t >= F.q THEN <<>>
    ELSE With(ElemList(F, ProductCoefs(F, t)).val, LAMBDA elem :
           IF EqInt(elem, 0) \/ elem \in order_of_elems
           THEN SearchFrom(F, t + 1, order_of_elems)
           ELSE With(GenerateCycle(F, elem, <<elem>>), LAMBDA generated_elems :
                  IF Len(generated_elems) = F.q - 1
                  THEN elem
                  ELSE With(order_of_elems \cup Range(generated_elems),
                            LAMBDA seen : SearchFrom(F, t + 1, seen))))

\* current_multiple at each i of range(q - 1), starting from the element 1
RECURSIVE Multiples(_, _, _)
Multiples(F, current_multiple, i) ==
    IF i >= F.q - 1 THEN <<>>
    ELSE With(MulDirect(F, current_multiple, F.primitive_elem), LAMBDA next :
           <<current_multiple>> \o Multiples(F, next, i + 1))

\* the log table: log_table[current_multiple] = i (the last i wins), zero -> -inf
LogTableOffByOne(F) ==
    With(Multiples(F, One(F), 0), LAMBDA mult :
      [e \in Range(mult) \cup {Zero(F)} |->
         IF e = Zero(F) THEN NegInf
         ELSE LInt(1 + CHOOSE i \in 0..(F.q - 2) :
                /\ mult[i + 1] = e
                /\ \A j \in 0..(F.q - 2) : mult[j + 1] = e => j <= i)])

LogTable(F) ==
    With(Multiples(F, One(F), 0), LAMBDA mult :
      [e \in Range(mult) \cup {Zero(F)} |->
         IF e = Zero(F) THEN NegInf
         ELSE LInt(CHOOSE i \in 0..(F.q - 2) :
                /\ mult[i + 1] = e
                /\ \A j \in 0..(F.q - 2) : mult[j + 1] = e => j <= i)])

\* the inverse table: inverse_log_table[i] = current_multiple, -inf -> zero
InverseLogTable(F) ==
    With(Multiples(F, One(F), 0), LAMBDA mult :
      [v \in {LInt(i) : i \in 0..(F.q - 2)} \cup {NegInf} |->
         IF v = NegInf THEN Zero(F) ELSE mult[v[2] + 1]])

\* the field after _build_log_table(), and what the call raised
BuildLogTable(F) ==
    IF ~TruthyOrNone(F.primitive_elem) THEN [field |-> F, exc |-> "ValueError"]
    ELSE LET G == [F EXCEPT !.has_log_table = FALSE]
         IN [field |-> [G EXCEPT !.log_table = LogTable(G),
                                 !.inverse_log_table = InverseLogTable(G),
                                 !.has_log_table = TRUE],
             exc |-> "none"]

FindPrimitiveElemReturnsNone(F) ==
    IF TruthyOrNone(F.primitive_elem)
    THEN [field |-> F, ret |-> Ok(<<>>)]
    ELSE With([F EXCEPT !.primitive_elem = SearchFrom(F, 0, {})], LAMBDA G :
           With(BuildLogTable(G), LAMBDA built :
             [field |-> built.field,
              ret |-> IF built.exc = "none" THEN Ok(G.primitive_elem)
                      ELSE Raise(built.exc)]))

\* the field after find_primitive_elem(), and its outcome
FindPrimitiveElemOf(F) ==
    IF TruthyOrNone(F.primitive_elem)
    THEN [field |-> F, ret |-> Ok(F.primitive_elem)]
    ELSE With([F EXCEPT !.primitive_elem = SearchFrom(F, 0, {})], LAMBDA G :
           With(BuildLogTable(G), LAMBDA built :
             [field |-> built.field,
              ret |-> IF built.exc = "none" THEN Ok(G.primitive_elem)
                      ELSE Raise(built.exc)]))

\* FiniteField(p, m, primitive_poly, find_primitive_elem): the constructed
\* object (the arguments passed the validation of __init__)
NewField(p, m, primitive_poly, find_primitive_elem) ==
    LET F == [p |-> p, q |-> IntPow(p, m), m |-> m,
              primitive_poly |-> primitive_poly,
              primitive_elem |-> <<>>,
              log_table |-> <<>>,
              inverse_log_table |-> <<>>,
              has_log_table |-> FALSE]
    IN IF find_primitive_elem THEN FindPrimitiveElemOf(F).field ELSE F

\* what __init__ accepts: m > 1 needs a monic primitive_poly of length m + 1
ValidFieldArgs(m, primitive_poly) ==
    m > 1 => Len(primitive_poly) = m + 1 /\ primitive_poly[m + 1] = 1

(***************************************************************************)
(* utils.py: a matrix is a sequence of rows, a row a sequence of elements  *)
(***************************************************************************)

\* a - multiplier * b on elements (the code's -= multiplier * ...)
SubMul(F, a, multiplier, b) == Sub(F, a, Mul(F, multiplier, b).val)

\* the first row at or below r with a nonzero entry in column c, else the
\* last row (rows and columns 1-based)
RECURSIVE FindPivotRow(_, _, _)
FindPivotRow(A, pivot_row, c) ==
    IF EqInt(A[pivot_row][c], 0) /\ pivot_row < Len(A)
    THEN FindPivotRow(A, pivot_row + 1, c)
    ELSE pivot_row

SwapRows(A, r, pivot_row) ==
    List([i \in DOMAIN A |-> IF i = r THEN A[pivot_row]
                             ELSE IF i = pivot_row THEN A[r]
                             ELSE A[i]])

\* rows below r: subtract multiplier * row r from column c on;
\* then row r divided by its entry in column c, from column c on
ReduceBelow(F, A, r, c) ==
    With(List([i \in DOMAIN A |->
                 IF i > r /\ ~EqInt(A[i][c], 0)
                 THEN With(Div(F, A[i][c], A[r][c]).val, LAMBDA multiplier :
                         List([j \in DOMAIN A[i] |->
                                 IF j >= c
                                 THEN SubMul(F, A[i][j], multiplier, A[r][j])
                                 ELSE A[i][j]]))
                 ELSE A[i]]),
         LAMBDA B :
           LET divisor == B[r][c]
           IN [B EXCEPT ![r] = List([j \in DOMAIN B[r] |->
                                       IF j >= c THEN Div(F, B[r][j], divisor).val
                                       ELSE B[r][j]])])

\* the forward scan from (r, c): the matrix and the (r, c) it stops at
RECURSIVE ForwardScan(_, _, _, _)
ForwardScan(F, A, r, c) ==
    IF ~(r <= Len(A) /\ c <= Len(A[1])) THEN [A |-> A, r |-> r, c |-> c]
    ELSE With(FindPivotRow(A, r, c), LAMBDA pivot_row :
           IF EqInt(A[pivot_row][c], 0)
           THEN ForwardScan(F, A, r, c + 1)
           ELSE With(SwapRows(A, r, pivot_row), LAMBDA swapped :
                  With(ReduceBelow(F, swapped, r, c), LAMBDA reduced :
                    ForwardScan(F, reduced, r + 1, c + 1))))

\* the last row at or above i with a nonzero entry in column c, else row 1
RECURSIVE FindLastNonZero(_, _, _)
FindLastNonZero(A, i, c) ==
    IF i > 1 /\ EqInt(A[i][c], 0) THEN FindLastNonZero(A, i - 1, c) ELSE i

ReduceAboveSkipped(F, A, i, c) == A

\* rows above i: subtract multiplier * row i from column c on
ReduceAbove(F, A, i, c) ==
    List([j \in DOMAIN A |->
       IF j < i
       THEN With(Div(F, A[j][c], A[i][c]).val, LAMBDA multiplier :
              List([x \in DOMAIN A[j] |->
                      IF x >= c THEN SubMul(F, A[j][x], multiplier, A[i][x])
                      ELSE A[j][x]]))
       ELSE A[j]])

\* the backward scan from (r, c)
RECURSIVE BackwardScan(_, _, _, _)
BackwardScan(F, A, r, c) ==
    IF ~(r >= 1 /\ c >= 1) THEN A
    ELSE With(FindLastNonZero(A, r, c), LAMBDA i :
           IF EqInt(A[i][c], 0)
           THEN BackwardScan(F, A, r, c - 1)
           ELSE With(ReduceAbove(F, A, i, c), LAMBDA reduced :
                  BackwardScan(F, reduced, r - 1, c - 1)))

IsZeroMatrix(A) == \A i \in DOMAIN A : \A j \in DOMAIN A[i] : EqInt(A[i][j], 0)

\* gaussian_elimination(A): the matrix returned (the list A itself, reduced
\* in place).  Without a log table the first division raises ValueError.
GaussianElimination(F, A) ==
    IF ~F.has_log_table /\ ~IsZeroMatrix(A) THEN Raise("ValueError")
    ELSE With(ForwardScan(F, A, 1, 1), LAMBDA fwd :
           Ok(BackwardScan(F, fwd.A, fwd.r - 1, fwd.c - 1)))

\* the loop of solve_lin_sys over the diagonal from row i on
RECURSIVE CheckDiagonal(_, _, _, _)
CheckDiagonal(A_reduced, b, i, solution) ==
    IF i > Len(A_reduced) THEN Ok(solution)
    ELSE IF EqInt(A_reduced[i][i], 0)
    THEN IF EqInt(b[i], 0)
         THEN RaiseMsg("ValueError", "A is not full rank, no unique solution.")
         ELSE RaiseMsg("ValueError", "No solution exist for this system.")
    ELSE IF ~EqInt(A_reduced[i][i], 1)
    THEN RaiseMsg("ValueError", "Unknown error happened, corrupted result")
    ELSE CheckDiagonal(A_reduced, b, i + 1,
                       Append(solution, A_reduced[i][Len(A_reduced[i])]))

\* solve_lin_sys(A, b)
SolveLinSys(F, A, b) ==
    IF Len(b) # Len(A) THEN RaiseMsg("ValueError", "Unmatched dimension")
    ELSE IF Len(A[1]) # Len(A) THEN RaiseMsg("ValueError", "Expected A to be a square matrix.")
    ELSE With(List([i \in DOMAIN A |-> Append(A[i], b[i])]), LAMBDA A_aug :
           With(GaussianElimination(F, A_aug), LAMBDA A_reduced :
             IF A_reduced.exc # "none" THEN A_reduced
             ELSE CheckDiagonal(A_reduced.val, b, 1, <<>>)))

\* reminder[x_pow + i] -= quotient_term * g[i] for i in range(len(g))
PolyDivStep(F, reminder, g, x_pow, quotient_term) ==
    List([i \in DOMAIN reminder |->
       IF i - 1 >= x_pow /\ i - 1 < x_pow + Len(g)
       THEN SubMul(F, reminder[i], quotient_term, g[i - x_pow])
       ELSE reminder[i]])

\* the long-division loop from x_pow down to 0; quotient has the leading
\* coefficient first
RECURSIVE PolyDivLoop(_, _, _, _, _)
PolyDivLoop(F, reminder, g, x_pow, quotient) ==
    IF x_pow < 0 THEN [quotient |-> quotient, reminder |-> reminder]
    ELSE With(Div(F, reminder[Len(reminder)], g[Len(g)]).val,
              LAMBDA quotient_term :
           With(PolyDivStep(F, reminder, g, x_pow, quotient_term),
                LAMBDA stepped :
             With(SubSeq(stepped, 1, Len(stepped) - 1), LAMBDA popped :
               With(Append(quotient, quotient_term), LAMBDA appended :
                 PolyDivLoop(F, popped, g, x_pow - 1, appended)))))

ReverseForgotten(s) == s

\* quotient[::-1]
Reverse(s) == List([i \in DOMAIN s |-> s[Len(s) + 1 - i]])

\* while len(reminder) > 0 and reminder[-1] == 0: reminder = reminder[:-1]
RECURSIVE TrimZeros(_)
TrimZeros(reminder) ==
    IF Len(reminder) > 0 /\ EqInt(reminder[Len(reminder)], 0)
    THEN With(SubSeq(reminder, 1, Len(reminder) - 1), LAMBDA popped :
           TrimZeros(popped))
    ELSE reminder

\* poly_div(f, g): ret is the outcome, (quotient, reminder) when it returns;
\* f is the caller's list f after the call: reminder is the list f itself
\* during the first division step, and a copy from the first trim on
PolyDiv(F, f, g) ==
    IF Len(f) < Len(g)
    THEN [ret |-> Ok(<<<<>>, TrimZeros(f)>>), f |-> f]
    ELSE IF Len(f) = 0 \/ Len(g) = 0
    THEN [ret |-> Raise("IndexError"), f |-> f]
    ELSE With(Div(F, f[Len(f)], g[Len(g)]), LAMBDA first :
           IF first.exc # "none" THEN [ret |-> first, f |-> f]
           ELSE With(PolyDivLoop(F, f, g, Len(f) - Len(g), <<>>), LAMBDA out :
                  [ret |-> Ok(<<Reverse(out.quotient),
                                TrimZeros(out.reminder)>>),
                   f |-> PolyDivStep(F, f, g, Len(f) - Len(g), first.val)]))

(***************************************************************************)
(* ReedSolomon.py                                                          *)
(***************************************************************************)

\* the module-level k of ReedSolomon.py: encode and decode read this global
\* where they say k, and the code's own length where they say self.k
k == 8

\* sum([...]) of a list of elements: 0 + t0 is t0 + FiniteFieldElem(0), then
\* one __add__ per further term
RECURSIVE SumFrom(_, _, _)
SumFrom(F, acc, terms) ==
    IF terms = <<>> THEN acc
    ELSE With(Add(F, acc, Head(terms)), LAMBDA sum :
           With(Tail(terms), LAMBDA rest : SumFrom(F, sum, rest)))

PySum(F, terms) ==
    IF terms = <<>> THEN Zero(F)
    ELSE With(Add(F, Head(terms), Zero(F)), LAMBDA sum :
           With(Tail(terms), LAMBDA rest : SumFrom(F, sum, rest)))

\* the first exception in a list of exception names, "none" if there is none
FirstExc(list) ==
    With(List(list), LAMBDA excs :
      IF \A i \in DOMAIN excs : excs[i] = "none" THEN "none"
      ELSE excs[CHOOSE i \in DOMAIN excs :
                   /\ excs[i] # "none"
                   /\ \A j \in 1..(i - 1) : excs[j] = "none"])

\* the outcome of a list comprehension from the outcomes of its items
ListOutcome(list) ==
    With(List(list), LAMBDA items :
      With(FirstExc([i \in DOMAIN items |-> items[i].exc]), LAMBDA exc :
        IF exc # "none" THEN Raise(exc)
        ELSE Ok(List([i \in DOMAIN items |-> items[i].val]))))

\* the outcomes of x**0, ..., x**(count - 1)
Powers(F, x, count) == ListOutcome([i \in 1..count |-> Pow(F, x, i - 1)])

\* poly_eval(f, x): sum([f[i] * x**i for i in range(len(f))])
PolyEval(F, f, x) ==
    With(Powers(F, x, Len(f)), LAMBDA pw :
      IF pw.exc # "none" THEN pw
      ELSE With(List([i \in DOMAIN f |-> Mul(F, f[i], pw.val[i]).val]),
                LAMBDA terms : Ok(PySum(F, terms))))

\* ReedSolomonCode(field, n, k, eval_points)
NewCode(n, self_k, eval_points) ==
    IF Len(eval_points) # n THEN Raise("ValueError")
    ELSE Ok([n |-> n, k |-> self_k, eval_points |-> eval_points])

\* the outcome of x**i * plaintext[i] in f(x) of encode (i 0-based)
EncodeTerm(F, plaintext, x, i) ==
    With(Pow(F, x, i), LAMBDA pw :
      IF pw.exc # "none" THEN pw
      ELSE IF i >= Len(plaintext) THEN Raise("IndexError")
      ELSE Mul(F, pw.val, plaintext[i + 1]))

\* f(x) of encode: sum([x**i * plaintext[i] for i in range(k)]), k the global
EncodeAt(F, plaintext, x) ==
    With(ListOutcome([i \in 1..k |-> EncodeTerm(F, plaintext, x, i - 1)]),
         LAMBDA terms :
      IF terms.exc # "none" THEN terms ELSE Ok(PySum(F, terms.val)))

\* rs.encode(plaintext)
Encode(F, code, plaintext) ==
    IF Len(plaintext) # code.k THEN Raise("ValueError")
    ELSE ListOutcome([i \in DOMAIN code.eval_points |->
                        EncodeAt(F, plaintext, code.eval_points[i])])

\* gen_row(i) of decode for the hypothesis e (i 0-based): coef_E + coef_Q
GenRow(F, code, ciphertext, e, i) ==
    IF (e > 0 /\ i >= Len(ciphertext)) \/ i >= Len(code.eval_points)
    THEN Raise("IndexError")
    ELSE With(Powers(F, code.eval_points[i + 1], e + k), LAMBDA pw :
           IF pw.exc # "none" THEN pw
           ELSE Ok(List([j \in 1..(2 * e + k) |->
                           IF j <= e
                           THEN Mul(F, ciphertext[i + 1], pw.val[j]).val
                           ELSE Neg(F, pw.val[j - e])])))

\* b[i] of decode: -ciphertext[i] * self.eval_points[i]**e
RhsAt(F, code, ciphertext, e, i) ==
    IF i >= Len(ciphertext) \/ i >= Len(code.eval_points)
    THEN Raise("IndexError")
    ELSE With(Pow(F, code.eval_points[i + 1], e), LAMBDA pw :
           IF pw.exc # "none" THEN pw
           ELSE Mul(F, Neg(F, ciphertext[i + 1]), pw.val))

\* the codeword decode returns for the polynomial f it found
Reencode(F, code, f) ==
    ListOutcome([i \in DOMAIN code.eval_points |->
                   PolyEval(F, f, code.eval_points[i])])

\* E did not divide Q: the hypothesis is dropped as an unsolvable one is
\* (continue), else the codeword of the quotient is returned
RECURSIVE DecodeFrom(_, _, _, _)
DecodeQuotient(F, code, ciphertext, e, x) ==
    With(PolyDiv(F, SubSeq(x, e + 1, Len(x)),
                 Append(SubSeq(x, 1, e), ElemInt(F, 1).val)).ret,
         LAMBDA div :
      IF div.exc # "none" THEN div
      ELSE IF Len(div.val[2]) > 0
      THEN DecodeFrom(F, code, ciphertext, e - 1)
      ELSE Reencode(F, code, div.val[1]))

\* the loop of decode from the hypothesis e down to 0
DecodeFrom(F, code, ciphertext, e) ==
    IF e < 0 THEN RaiseMsg("ValueError", "No decoding found!")
    ELSE
      LET m == 2 * e + k
      IN With(ListOutcome([i \in 1..m |-> GenRow(F, code, ciphertext, e, i - 1)]),
              LAMBDA A :
           IF A.exc # "none" THEN A
           ELSE With(ListOutcome([i \in 1..m |->
                                    RhsAt(F, code, ciphertext, e, i - 1)]),
                     LAMBDA b :
                  IF b.exc # "none" THEN b
                  ELSE With(SolveLinSys(F, A.val, b.val), LAMBDA x :
                         IF x.exc = "ValueError"
                         THEN DecodeFrom(F, code, ciphertext, e - 1)
                         ELSE IF x.exc # "none" THEN x
                         ELSE DecodeQuotient(F, code, ciphertext, e, x.val))))

\* x of the hypothesis e: the outcome of building A and b and of
\* solve_lin_sys(A, b)
SolveHypothesis(F, code, ciphertext, e) ==
    LET m == 2 * e + k
    IN With(ListOutcome([i \in 1..m |-> GenRow(F, code, ciphertext, e, i - 1)]),
            LAMBDA A :
         IF A.exc # "none" THEN A
         ELSE With(ListOutcome([i \in 1..m |->
                                  RhsAt(F, code, ciphertext, e, i - 1)]),
                   LAMBDA b :
                IF b.exc # "none" THEN b
                ELSE SolveLinSys(F, A.val, b.val)))

\* f, r = poly_div(Q, E) for the solution x of the hypothesis e
DivideHypothesis(F, e, x) ==
    PolyDiv(F, SubSeq(x, e + 1, Len(x)),
            Append(SubSeq(x, 1, e), ElemInt(F, 1).val)).ret

\* the hypotheses, from e down, at which the loop of decode finds Q and E
\* with a non-empty remainder of Q by E (where it prints "Error: found Q, E
\* but E did not divide Q")
RECURSIVE DidNotDivide(_, _, _, _)
DidNotDivide(F, code, ciphertext, e) ==
    IF e < 0 THEN {}
    ELSE With(SolveHypothesis(F, code, ciphertext, e), LAMBDA x :
           IF x.exc = "ValueError"
           THEN DidNotDivide(F, code, ciphertext, e - 1)
           ELSE IF x.exc # "none" THEN {}
           ELSE With(DivideHypothesis(F, e, x.val), LAMBDA div :
                  IF div.exc # "none" \/ Len(div.val[2]) = 0 THEN {}
                  ELSE {e} \cup DidNotDivide(F, code, ciphertext, e - 1)))

\* rs.decode(ciphertext)
Decode(F, code, ciphertext) ==
    DecodeFrom(F, code, ciphertext, (code.n - code.k) \div 2)

(***************************************************************************)
(* The fields of the model: the arguments of FiniteField(...) that are     *)
(* tried.  Every primitive_poly listed is monic and irreducible over Z/pZ. *)
(***************************************************************************)
FieldArgs ==
    {[p |-> 2, m |-> 1, primitive_poly |-> <<>>],
     [p |-> 3, m |-> 1, primitive_poly |-> <<>>],
     [p |-> 5, m |-> 1, primitive_poly |-> <<>>],
     [p |-> 7, m |-> 1, primitive_poly |-> <<>>],
     [p |-> 2, m |-> 2, primitive_poly |-> <<1, 1, 1>>],
     [p |-> 2, m |-> 3, primitive_poly |-> <<1, 1, 0, 1>>],
     [p |-> 3, m |-> 2, primitive_poly |-> <<1, 0, 1>>],
     [p |-> 3, m |-> 2, primitive_poly |-> <<2, 2, 1>>],
     [p |-> 5, m |-> 2, primitive_poly |-> <<2, 0, 1>>],
     [p |-> 2, m |-> 4, primitive_poly |-> <<1, 1, 0, 0, 1>>]}

\* the exponents tried with **: -MaxExponent .. MaxExponent
MaxExponent == 2

Elems(F) == [1..F.m -> 0..(F.p - 1)]

NoCode == [n |-> 0, k |-> 0, eval_points |-> <<>>]

\* no call is in progress: the state between two calls
NoCall == [name |-> "none", a |-> <<>>, b |-> <<>>, e |-> 0]
Idle == call.name = "none"

\* the caller is done with the outcome of the last call
Return ==
    /\ ~Idle
    /\ call' = NoCall
    /\ mem' = <<>>
    /\ ret' = Ok(<<>>)
    /\ UNCHANGED <<field, rs>>

InitField ==
    /\ \E args \in FieldArgs, find_primitive_elem \in BOOLEAN :
          /\ ValidFieldArgs(args.m, args.primitive_poly)
          /\ field = NewField(args.p, args.m, args.primitive_poly,
                              find_primitive_elem)
    /\ rs = NoCode
    /\ call = NoCall
    /\ mem = <<>>
    /\ ret = Ok(<<>>)

\* field.find_primitive_elem(); call.a keeps the primitive_elem that the
\* field had before the call (none: <<>>)
FindPrimitiveElem ==
    /\ Idle
    /\ LET out == FindPrimitiveElemOf(field)
       IN /\ field' = out.field
          /\ call' = [NoCall EXCEPT !.name = "find_primitive_elem",
                                    !.a = field.primitive_elem]
          /\ ret' = out.ret
    /\ UNCHANGED <<rs, mem>>

\* a * b for two elements of the field
DoMul ==
    /\ Idle
    /\ \E a \in Elems(field), b \in Elems(field) :
          /\ call' = [NoCall EXCEPT !.name = "__mul__", !.a = a, !.b = b]
          /\ ret' = Mul(field, a, b)
    /\ UNCHANGED <<field, rs, mem>>

\* a / b for two elements of the field
DoDiv ==
    /\ Idle
    /\ \E a \in Elems(field), b \in Elems(field) :
          /\ call' = [NoCall EXCEPT !.name = "__truediv__", !.a = a, !.b = b]
          /\ ret' = Div(field, a, b)
    /\ UNCHANGED <<field, rs, mem>>

\* a ** e for an element and an int
DoPow ==
    /\ Idle
    /\ \E a \in Elems(field), e \in (0 - MaxExponent)..MaxExponent :
          /\ call' = [NoCall EXCEPT !.name = "__pow__", !.a = a, !.e = e]
          /\ ret' = Pow(field, a, e)
    /\ UNCHANGED <<field, rs, mem>>

\* the int operands tried with +, -, * and /: -MaxScalar .. MaxScalar
MaxScalar == 3
Scalars == (0 - MaxScalar)..MaxScalar

\* a + c, a - c, a * c, a / c for an element a and an int c
DoAddInt ==
    /\ Idle
    /\ \E a \in Elems(field), c \in Scalars :
          /\ call' = [NoCall EXCEPT !.name = "__add__(int)", !.a = a, !.e = c]
          /\ ret' = AddInt(field, a, c)
    /\ UNCHANGED <<field, rs, mem>>

DoSubInt ==
    /\ Idle
    /\ \E a \in Elems(field), c \in Scalars :
          /\ call' = [NoCall EXCEPT !.name = "__sub__(int)", !.a = a, !.e = c]
          /\ ret' = SubInt(field, a, c)
    /\ UNCHANGED <<field, rs, mem>>

DoMulInt ==
    /\ Idle
    /\ \E a \in Elems(field), c \in Scalars :
          /\ call' = [NoCall EXCEPT !.name = "__mul__(int)", !.a = a, !.e = c]
          /\ ret' = MulInt(field, a, c)
    /\ UNCHANGED <<field, rs, mem>>

DoDivInt ==
    /\ Idle
    /\ \E a \in Elems(field), c \in Scalars :
          /\ call' = [NoCall EXCEPT !.name = "__truediv__(int)",
                                    !.a = a, !.e = c]
          /\ ret' = DivInt(field, a, c)
    /\ UNCHANGED <<field, rs, mem>>

\* field(c) for an int c, field(val) for a list of one or two ints
DoElem ==
    /\ Idle
    /\ \/ \E c \in Scalars :
             /\ call' = [NoCall EXCEPT !.name = "__call__(int)", !.e = c]
             /\ ret' = ElemInt(field, c)
       \/ \E len \in 1..2 : \E val \in [1..len -> Scalars] :
             /\ call' = [NoCall EXCEPT !.name = "__call__", !.a = val]
             /\ ret' = ElemList(field, val)
    /\ UNCHANGED <<field, rs, mem>>

\* a + b, a - b for two elements of the field
DoAdd ==
    /\ Idle
    /\ \E a \in Elems(field), b \in Elems(field) :
          /\ call' = [NoCall EXCEPT !.name = "__add__", !.a = a, !.b = b]
          /\ ret' = Ok(Add(field, a, b))
    /\ UNCHANGED <<field, rs, mem>>

DoSub ==
    /\ Idle
    /\ \E a \in Elems(field), b \in Elems(field) :
          /\ call' = [NoCall EXCEPT !.name = "__sub__", !.a = a, !.b = b]
          /\ ret' = Ok(Sub(field, a, b))
    /\ UNCHANGED <<field, rs, mem>>

\* -a
DoNeg ==
    /\ Idle
    /\ \E a \in Elems(field) :
          /\ call' = [NoCall EXCEPT !.name = "__neg__", !.a = a]
          /\ ret' = Ok(Neg(field, a))
    /\ UNCHANGED <<field, rs, mem>>

\* field.log(a)
DoLog ==
    /\ Idle
    /\ \E a \in Elems(field) :
          /\ call' = [NoCall EXCEPT !.name = "log", !.a = a]
          /\ ret' = Log(field, a)
    /\ UNCHANGED <<field, rs, mem>>

\* field.inverse_log(v) for an int v and for the floats -inf, inf and nan
DoInverseLog ==
    /\ Idle
    /\ \E v \in {LInt(c) : c \in Scalars} \cup {NegInf, PosInf, NaN} :
          /\ call' = [NoCall EXCEPT !.name = "inverse_log", !.a = v]
          /\ ret' = InverseLog(field, v)
    /\ UNCHANGED <<field, rs, mem>>

NextField ==
    \/ FindPrimitiveElem \/ DoMul \/ DoDiv \/ DoPow
    \/ DoAddInt \/ DoSubInt \/ DoMulInt \/ DoDivInt
    \/ DoElem \/ DoAdd \/ DoSub \/ DoNeg \/ DoLog \/ DoInverseLog
    \/ Return

SpecField == InitField /\ [][NextField]_vars

\* the find_primitive_elem that __init__ takes when the caller passes none
DefaultFindPrimitiveElem == TRUE

\* FiniteField(p) and FiniteField(p, m, primitive_poly): constructed without
\* the find_primitive_elem argument
InitDefault ==
    /\ \E args \in FieldArgs :
          /\ ValidFieldArgs(args.m, args.primitive_poly)
          /\ field = NewField(args.p, args.m, args.primitive_poly,
                              DefaultFindPrimitiveElem)
    /\ rs = NoCode
    /\ call = NoCall
    /\ mem = <<>>
    /\ ret = Ok(<<>>)

SpecDefault == InitDefault /\ [][NextField]_vars

(***************************************************************************)
(* Calls of the utilities of utils.py on matrices and polynomials over a   *)
(* field built with find_primitive_elem = True, so that / is defined.      *)
(***************************************************************************)

\* gaussian_elimination on the matrices over GF(2) with up to MaxRows rows
\* and MaxCols columns, and on the matrices of the shapes below over GF(3)
MaxRows == 4
MaxCols == 4
\* solve_lin_sys on the n-by-n systems over GF(2), n up to MaxUnknowns
MaxUnknowns == 3
\* poly_div on coefficient lists of up to MaxPolyLen coefficients
MaxPolyLen == 3

GF2 == [p |-> 2, m |-> 1, primitive_poly |-> <<>>]
GF3 == [p |-> 3, m |-> 1, primitive_poly |-> <<>>]
GF4 == [p |-> 2, m |-> 2, primitive_poly |-> <<1, 1, 1>>]

Matrices(F, rows, cols) == [1..rows -> [1..cols -> Elems(F)]]
Lists(F, len) == [1..len -> Elems(F)]

InitUtils ==
    /\ \E args \in {GF2, GF3, GF4} :
          field = NewField(args.p, args.m, args.primitive_poly, TRUE)
    /\ rs = NoCode
    /\ call = NoCall
    /\ mem = <<>>
    /\ ret = Ok(<<>>)

\* the shapes tried over the field: every shape within the bounds over
\* GF(2), up to 3 by 3 over GF(3), up to 2 by 3 over GF(4)
Shapes(F) ==
    IF F.q = 2 THEN (1..MaxRows) \X (1..MaxCols)
    ELSE IF F.q = 3 THEN (1..3) \X (1..3)
    ELSE (1..2) \X (1..3)

\* gaussian_elimination(A): A is reduced in place and returned
DoGaussianElimination ==
    /\ Idle
    /\ \E shape \in Shapes(field) :
          \E A \in Matrices(field, shape[1], shape[2]) :
             LET out == GaussianElimination(field, A)
             IN /\ call' = [NoCall EXCEPT !.name = "gaussian_elimination",
                                          !.a = A]
                /\ ret' = out
                /\ mem' = out.val
    /\ UNCHANGED <<field, rs>>

\* the numbers of unknowns tried over the field
Unknowns(F) == IF F.q = 2 THEN 1..MaxUnknowns ELSE 1..2

\* solve_lin_sys(A, b): A_aug is built from new lists, A and b are not touched
DoSolveLinSys ==
    /\ Idle
    /\ \E n \in Unknowns(field) :
          \E A \in Matrices(field, n, n), b \in Lists(field, n) :
             /\ call' = [NoCall EXCEPT !.name = "solve_lin_sys",
                                       !.a = A, !.b = b]
             /\ ret' = SolveLinSys(field, A, b)
             /\ mem' = <<A, b>>
    /\ UNCHANGED <<field, rs>>

\* poly_div(f, g): mem is the caller's f and g after the call
DoPolyDiv ==
    /\ Idle
    /\ \E flen \in 0..MaxPolyLen, glen \in 0..MaxPolyLen :
          \E f \in Lists(field, flen), g \in Lists(field, glen) :
             LET out == PolyDiv(field, f, g)
             IN /\ call' = [NoCall EXCEPT !.name = "poly_div",
                                          !.a = f, !.b = g]
                /\ ret' = out.ret
                /\ mem' = <<out.f, g>>
    /\ UNCHANGED <<field, rs>>

\* A_ = gaussian_elimination(A); gaussian_elimination(A_): the second call,
\* on the matrix the first one returned; call.b keeps the first call's input
DoGaussianEliminationAgain ==
    /\ call.name = "gaussian_elimination"
    /\ call.b = <<>>
    /\ ret.exc = "none"
    /\ \E out \in {GaussianElimination(field, mem)} :
          /\ call' = [NoCall EXCEPT !.name = "gaussian_elimination",
                                    !.a = mem, !.b = call.a]
          /\ ret' = out
          /\ mem' = out.val
    /\ UNCHANGED <<field, rs>>

NextGauss == DoGaussianElimination \/ DoGaussianEliminationAgain \/ Return
SpecGauss == InitUtils /\ [][NextGauss]_vars

NextSolve == DoSolveLinSys \/ Return
SpecSolve == InitUtils /\ [][NextSolve]_vars

NextPoly == DoPolyDiv \/ Return
SpecPoly == InitUtils /\ [][NextPoly]_vars

(***************************************************************************)
(* Calls of ReedSolomonCode.encode and decode.  The codes are built as     *)
(* test.py builds them: over a prime field with find_primitive_elem =      *)
(* True, with the evaluation points F(1), ..., F(n).                       *)
(***************************************************************************)

\* the codes tried: ReedSolomonCode(FiniteField(p), n, k, [F(1), ..., F(n)])
CodeArgs ==
    {[p |-> 7, n |-> 4, k |-> 2],
     [p |-> 11, n |-> 10, k |-> 8],
     [p |-> 11, n |-> 9, k |-> 8]}

\* list(map(F, ints))
MapF(F, ints) == List([i \in DOMAIN ints |-> ElemInt(F, ints[i]).val])

\* the messages tried: every message of a code with k <= 2, four messages
\* of a code with a longer one
Messages(F, code) ==
    IF code.k <= 2 THEN Lists(F, code.k)
    ELSE {MapF(F, [i \in 1..code.k |-> 0]),
          MapF(F, [i \in 1..code.k |-> i + 2]),
          MapF(F, [i \in 1..code.k |-> IF i = 1 THEN 1 ELSE 0]),
          MapF(F, [i \in 1..code.k |-> IF i = code.k THEN 1 ELSE 0])}

\* the caller changes up to MaxErrors symbols of an encoded word
MaxErrors == 1

\* the caller's lists: the message, the word encode returned for it, and the
\* word handed to decode
NoWord == [plaintext |-> <<>>, sent |-> <<>>, word |-> <<>>]

\* the positions where two words of the same length differ
Differ(v, w) == {i \in DOMAIN v : v[i] # w[i]}

InitRS ==
    /\ \E args \in CodeArgs :
          /\ field = NewField(args.p, 1, <<>>, TRUE)
          /\ rs = NewCode(args.n, args.k,
                          MapF(field, [i \in 1..args.n |-> i])).val
    /\ call = NoCall
    /\ mem = NoWord
    /\ ret = Ok(<<>>)

\* c = rs.encode(m)
DoEncode ==
    /\ Idle
    /\ \E plaintext \in Messages(field, rs) :
          \E out \in {Encode(field, rs, plaintext)} :
             /\ call' = [NoCall EXCEPT !.name = "encode", !.a = plaintext]
             /\ ret' = out
             /\ mem' = [plaintext |-> plaintext,
                        sent |-> IF out.exc = "none" THEN out.val ELSE <<>>,
                        word |-> IF out.exc = "none" THEN out.val ELSE <<>>]
    /\ UNCHANGED <<field, rs>>

\* c[i] += F(d) for a nonzero d, at a position not changed before
Corrupt ==
    /\ call.name \in {"encode", "corrupt"}
    /\ ret.exc = "none"
    /\ Cardinality(Differ(mem.word, mem.sent)) < MaxErrors
    /\ \E i \in DOMAIN mem.word, d \in Elems(field) \ {Zero(field)} :
          /\ mem.word[i] = mem.sent[i]
          /\ mem' = [mem EXCEPT !.word[i] = Add(field, mem.word[i], d)]
          /\ call' = [NoCall EXCEPT !.name = "corrupt", !.e = i]
    /\ UNCHANGED <<field, rs, ret>>

\* the words tried as arriving from elsewhere: every word of n symbols over
\* the field of 7, the words 1, d, 0, ..., 0 over a larger field
ReceivedWords(F, code) ==
    IF F.q = 7 THEN Lists(F, code.n)
    ELSE {MapF(F, [i \in 1..code.n |->
                     IF i = 1 THEN 1 ELSE IF i = 2 THEN d ELSE 0]) :
            d \in 0..(F.p - 1)}

\* a word of n symbols arrives from elsewhere
Receive ==
    /\ Idle
    /\ \E w \in ReceivedWords(field, rs) :
          /\ mem' = [NoWord EXCEPT !.word = w]
          /\ call' = [NoCall EXCEPT !.name = "receive", !.a = w]
    /\ UNCHANGED <<field, rs, ret>>

\* rs.decode(c)
DoDecode ==
    /\ call.name \in {"encode", "corrupt", "receive"}
    /\ mem.word # <<>>
    /\ call' = [NoCall EXCEPT !.name = "decode", !.a = mem.word]
    /\ ret' = Decode(field, rs, mem.word)
    /\ UNCHANGED <<field, rs, mem>>

NextRS == DoEncode \/ Corrupt \/ Receive \/ DoDecode

SpecRS == InitRS /\ [][NextRS]_vars

(***************************************************************************)
(* Constructions of codes over GF(2) and GF(3): n and the number of        *)
(* evaluation points up to MaxCodeLen, which is above the field size       *)
(***************************************************************************)

MaxCodeLen == 4

InitCode ==
    /\ \E args \in {GF2, GF3} :
          field = NewField(args.p, args.m, args.primitive_poly, TRUE)
    /\ rs = NoCode
    /\ call = NoCall
    /\ mem = <<>>
    /\ ret = Ok(<<>>)

\* rs = ReedSolomonCode(field, n, k, eval_points); rs stays what it was when
\* the constructor raises
DoNewCode ==
    /\ Idle
    /\ \E n \in 1..MaxCodeLen, len \in 0..MaxCodeLen :
          \E self_k \in 1..n, eval_points \in Lists(field, len) :
             \E out \in {NewCode(n, self_k, eval_points)} :
                /\ call' = [NoCall EXCEPT !.name = "ReedSolomonCode",
                                          !.a = eval_points, !.e = n]
                /\ ret' = out
                /\ rs' = IF out.exc = "none" THEN out.val ELSE rs
    /\ UNCHANGED <<field, mem>>

NextCode == DoNewCode \/ Return

SpecCode == InitCode /\ [][NextCode]_vars

(***************************************************************************)
(* Properties of the field arithmetic                                      *)
(***************************************************************************)

\* the coefficient of x^i (0-based i) of the product of two integer
\* polynomials given as coefficient sequences
PolyMulCoef(f, g, i) ==
    SumSeq([j \in 1..Len(f) |->
              IF i - (j - 1) >= 0 /\ i - (j - 1) < Len(g)
              THEN f[j] * g[i - (j - 1) + 1]
              ELSE 0])

CoefAt(f, i) == IF i < Len(f) THEN f[i + 1] ELSE 0

\* r is the remainder of a * b modulo the monic polynomial g over Z/pZ:
\* a * b = h * g + r for some quotient h of degree < m - 1
IsProductMod(F, a, b, r) ==
    \E h \in [1..(F.m - 1) -> 0..(F.p - 1)] :
       \A i \in 0..(2 * F.m - 2) :
          (PolyMulCoef(a, b, i) - PolyMulCoef(h, F.primitive_poly, i)
             - CoefAt(r, i)) % F.p = 0

\* C4: once find_primitive_elem() has built the log table, a * b computed
\* through the log table equals a * b computed by the direct
\* convolve-and-reduce path, for every pair of elements, zero included.
C4_LogMulAgreesWithDirect ==
    (call.name = "__mul__" /\ field.has_log_table)
       => ret = Ok(MulDirect(field, call.a, call.b))

C4_Witness ==
    /\ call.name = "__mul__" /\ field.has_log_table
    /\ field.q = 9 /\ call.a = <<1, 2>> /\ call.b = <<0, 0>>
    /\ ret = Ok(<<0, 0>>)

\* C5: without a log table a * b is the product of the two coefficient
\* polynomials over Z/pZ reduced modulo the monic degree-m reduction
\* polynomial, every coefficient in 0..p-1; in GF(4) with <<1, 1, 1>>,
\* (1,1)*(0,1) = (1,0) and (1,1)*(1,1) = (0,1).
C5_DirectMulIsProductMod ==
    (call.name = "__mul__" /\ ~field.has_log_table)
       => /\ ret.exc = "none"
          /\ ret.val \in Elems(field)
          /\ IsProductMod(field, call.a, call.b, ret.val)
          /\ (field.q = 4 /\ call.a = <<1, 1>> /\ call.b = <<0, 1>>)
                => ret.val = <<1, 0>>
          /\ (field.q = 4 /\ call.a = <<1, 1>> /\ call.b = <<1, 1>>)
                => ret.val = <<0, 1>>

C5_Witness ==
    /\ call.name = "__mul__" /\ ~field.has_log_table
    /\ field.q = 4 /\ call.a = <<1, 1>> /\ call.b = <<1, 1>>
    /\ ret = Ok(<<0, 1>>)

\* C9: after find_primitive_elem() the primitive element has multiplicative
\* order exactly q-1, the log table maps the q-1 nonzero elements to
\* distinct exponents in 0..q-2, inverse_log(log(a)) = a for every element,
\* the element stored at exponent i is primitive_elem multiplied i times,
\* and zero maps to -inf and back.
C9_LogTableIsBijection ==
    field.has_log_table =>
       LET g == field.primitive_elem
           nonzero == Elems(field) \ {Zero(field)}
       IN /\ g \in nonzero
          /\ PowLoop(field, One(field), g, field.q - 1) = One(field)
          /\ \A i \in 1..(field.q - 2) :
                PowLoop(field, One(field), g, i) # One(field)
          /\ DOMAIN field.log_table = Elems(field)
          /\ \A a \in nonzero :
                /\ IsInt(field.log_table[a])
                /\ field.log_table[a][2] \in 0..(field.q - 2)
          /\ \A a \in nonzero, b \in nonzero :
                field.log_table[a] = field.log_table[b] => a = b
          /\ \A a \in Elems(field) :
                InverseLog(field, Log(field, a).val) = Ok(a)
          /\ \A i \in 0..(field.q - 2) :
                field.inverse_log_table[LInt(i)]
                   = PowLoop(field, One(field), g, i)
          /\ field.log_table[Zero(field)] = NegInf
          /\ field.inverse_log_table[NegInf] = Zero(field)

C9_Witness ==
    /\ call.name = "find_primitive_elem" /\ field.has_log_table
    /\ field.q = 9 /\ field.primitive_elem = <<1, 1>>
    /\ ret = Ok(<<1, 1>>)

\* C10: once the log table exists, (a / b) * b = a for every a and every
\* nonzero b, and b * b**(-1) = 1 for every nonzero b.
C10_DivisionInvertsMul ==
    /\ (call.name = "__truediv__" /\ field.has_log_table /\ Truthy(call.b))
          => /\ ret.exc = "none"
             /\ Mul(field, ret.val, call.b) = Ok(call.a)
    /\ (call.name = "__pow__" /\ field.has_log_table /\ call.e = 0 - 1
          /\ Truthy(call.a))
          => /\ ret.exc = "none"
             /\ Mul(field, call.a, ret.val) = Ok(One(field))

C10_Witness ==
    /\ call.name = "__truediv__" /\ field.has_log_table
    /\ field.q = 8 /\ call.a = <<1, 0, 1>> /\ call.b = <<0, 1, 1>>
    /\ ret.exc = "none"

(***************************************************************************)
(* Properties of the utilities                                             *)
(***************************************************************************)

\* the sum of a sequence of elements, and the dot product of two sequences,
\* by componentwise addition and the direct product
RECURSIVE FieldSum(_, _)
FieldSum(F, s) ==
    IF s = <<>> THEN Zero(F) ELSE Add(F, Head(s), FieldSum(F, Tail(s)))

Dot(F, row, v) == FieldSum(F, [j \in DOMAIN row |-> MulDirect(F, row[j], v[j])])

\* A v = b
Solves(F, A, v, b) == \A i \in DOMAIN A : Dot(F, A[i], v) = b[i]

ZeroVector(F, n) == [i \in 1..n |-> Zero(F)]

\* A v = 0 only for v = 0
Nonsingular(F, A) ==
    \A v \in Lists(F, Len(A)) :
       Solves(F, A, v, ZeroVector(F, Len(A))) => v = ZeroVector(F, Len(A))

\* C6: solve_lin_sys(A, b) on a square system returns a vector exactly when
\* A is nonsingular, the vector is then the one solution of A x = b in the
\* original row order (also after row swaps), and a singular A raises
\* ValueError.
C6_SolveReturnsUniqueSolution ==
    call.name = "solve_lin_sys" =>
       /\ (ret.exc = "none") <=> Nonsingular(field, call.a)
       /\ ret.exc = "none" =>
             \A v \in Lists(field, Len(call.a)) :
                Solves(field, call.a, v, call.b) <=> v = ret.val
       /\ ~Nonsingular(field, call.a) => ret.exc = "ValueError"

\* a system whose first pivot is found in the second row (a row swap)
C6_Witness ==
    /\ call.name = "solve_lin_sys" /\ field.q = 3
    /\ call.a = <<<< <<0>>, <<1>> >>, << <<1>>, <<2>> >>>>
    /\ call.b = << <<1>>, <<2>> >>
    /\ ret = Ok(<< <<0>>, <<1>> >>)

\* the column (1-based) of the first nonzero entry of a row, 0 for a zero row
PivotCol(row) ==
    IF \A j \in DOMAIN row : EqInt(row[j], 0) THEN 0
    ELSE CHOOSE j \in DOMAIN row :
            /\ ~EqInt(row[j], 0)
            /\ \A x \in 1..(j - 1) : EqInt(row[x], 0)

\* the same solution set A v = 0 (the same row space)
RowEquivalent(F, A, B) ==
    \A v \in Lists(F, Len(A[1])) :
       Solves(F, A, v, ZeroVector(F, Len(A)))
          <=> Solves(F, B, v, ZeroVector(F, Len(B)))

\* C7: gaussian_elimination returns, for a matrix of any shape and rank,
\* without raising, and the matrix returned is row-equivalent to the input,
\* with every pivot entry 1 and every pivot column zero apart from its
\* pivot (stated as the claim makes it; the code does not satisfy it).
C7_ReturnsReducedRowEchelonForm ==
    call.name = "gaussian_elimination" =>
       /\ ret.exc = "none"
       /\ RowEquivalent(field, call.a, ret.val)
       /\ \A i \in DOMAIN ret.val :
             LET c == PivotCol(ret.val[i])
             IN c # 0 =>
                  /\ EqInt(ret.val[i][c], 1)
                  /\ \A j \in DOMAIN ret.val :
                        j # i => EqInt(ret.val[j][c], 0)

\* C8: for len(f) >= len(g) >= 1 and a nonzero leading coefficient of g,
\* poly_div(f, g) returns (q, r) with len(q) = len(f) - len(g) + 1, r without
\* a trailing zero and shorter than g, and f = g*q + r coefficient by
\* coefficient for the f passed in.
C8_PolyDivIdentity ==
    (/\ call.name = "poly_div"
     /\ Len(call.a) >= Len(call.b) /\ Len(call.b) >= 1
     /\ ~EqInt(call.b[Len(call.b)], 0))
       => /\ ret.exc = "none"
          /\ LET f == call.a
                 g == call.b
                 q == ret.val[1]
                 r == ret.val[2]
             IN /\ Len(q) = Len(f) - Len(g) + 1
                /\ Len(r) < Len(g)
                /\ Len(r) > 0 => ~EqInt(r[Len(r)], 0)
                /\ \A i \in 0..(Len(f) - 1) :
                      f[i + 1] =
                         Add(field,
                             FieldSum(field,
                                [j \in DOMAIN g |->
                                   IF i - (j - 1) >= 0 /\ i - (j - 1) < Len(q)
                                   THEN MulDirect(field, g[j], q[i - (j - 1) + 1])
                                   ELSE Zero(field)]),
                             IF i < Len(r) THEN r[i + 1] ELSE Zero(field))

\* (1 + x^2) / (2 + x) over GF(3): quotient 1 + x, remainder 2
C8_Witness ==
    /\ call.name = "poly_div" /\ field.q = 3
    /\ call.a = << <<1>>, <<0>>, <<1>> >> /\ call.b = << <<2>>, <<1>> >>
    /\ ret = Ok(<< << <<1>>, <<1>> >>, << <<2>> >> >>)


(***************************************************************************)
(* Properties of the Reed-Solomon code                                     *)
(***************************************************************************)

\* the largest number of errors the code promises to correct
Capacity(code) == (code.n - code.k) \div 2

\* the codeword of a message: the evaluations of the polynomial with the
\* message as coefficients at the n evaluation points
Codeword(F, code, plaintext) == Reencode(F, code, plaintext).val

\* C1: encode accepts every message of k elements, and decode of the word
\* encode returned for a message returns exactly that message, the k message
\* coefficients
C1_DecodeOfEncodeIsMessage ==
    /\ call.name = "encode" => ret.exc = "none"
    /\ (call.name = "decode" /\ mem.sent # <<>> /\ mem.word = mem.sent)
          => ret = Ok(mem.plaintext)

\* C2: decode of an encoded word of which at most floor((n-k)/2) symbols
\* were changed by nonzero additive errors returns exactly the message that
\* was encoded
C2_DecodeCorrectsErrors ==
    (/\ call.name = "decode"
     /\ mem.sent # <<>>
     /\ Cardinality(Differ(mem.word, mem.sent)) <= Capacity(rs))
       => ret = Ok(mem.plaintext)

\* C3: decode of a word that differs from a valid codeword in at most
\* floor((n-k)/2) positions does not raise, and the polynomial it finds
\* evaluates to that codeword at the n evaluation points
C3_DecodeFindsCodeword ==
    call.name = "decode"
       => \A plaintext \in Messages(field, rs) :
             LET c == Codeword(field, rs, plaintext)
             IN Cardinality(Differ(mem.word, c)) <= Capacity(rs)
                   => ret = Ok(c)


(***************************************************************************)
(* Further properties of the utilities                                     *)
(***************************************************************************)

\* C11: gaussian_elimination applied to the matrix that gaussian_elimination
\* returned returns a matrix equal to it entry by entry (stated as the claim
\* makes it; the code does not satisfy it).
C11_EliminationIsIdempotent ==
    (call.name = "gaussian_elimination" /\ call.b # <<>>)
       => ret = Ok(call.a)

\* A x = b has a solution
Consistent(F, A, b) == \E v \in Lists(F, Len(A)) : Solves(F, A, v, b)

\* C17: when solve_lin_sys(A, b) fails on a singular square system, the
\* error is "A is not full rank, no unique solution." exactly when A x = b
\* has a solution and "No solution exist for this system." exactly when it
\* has none, and never the "corrupted result" error (stated as the claim
\* makes it; the code does not satisfy it).
C17_ErrorTellsConsistency ==
    (/\ call.name = "solve_lin_sys"
     /\ ret.exc # "none"
     /\ ~Nonsingular(field, call.a))
       => /\ ret.msg = "A is not full rank, no unique solution."
                <=> Consistent(field, call.a, call.b)
          /\ ret.msg = "No solution exist for this system."
                <=> ~Consistent(field, call.a, call.b)
          /\ ret.msg # "Unknown error happened, corrupted result"

\* C20: poly_div(f, g) leaves the caller's lists f and g as they were: the
\* same lengths and the same coefficients after the call as before it
\* (stated as the claim makes it; the code does not satisfy it).
C20_PolyDivKeepsArguments ==
    call.name = "poly_div" => mem = <<call.a, call.b>>

(***************************************************************************)
(* Further properties of the field                                         *)
(***************************************************************************)

\* a step gives the field its log table only by find_primitive_elem(), and
\* without a table a * b is the direct product
TableOnlyBySearch ==
    /\ (~field.has_log_table /\ field'.has_log_table) =>
          call'.name = "find_primitive_elem"
    /\ (~field.has_log_table /\ call'.name = "__mul__") =>
          ret' = Ok(MulDirect(field, call'.a, call'.b))

\* C12: a field constructed without the find_primitive_elem argument has no
\* primitive element and no log table, and gets them only by a call of
\* find_primitive_elem(); a multiplication made while there is no table
\* returns what the direct path returns (stated as the claim makes it; the
\* code does not satisfy it).
C12_NoLogTableUntilSearch ==
    /\ ~field.has_log_table
    /\ field.primitive_elem = <<>>
    /\ [][TableOnlyBySearch]_vars

\* C13: a op c for an int c has the outcome of a op F(c), F(c) the element
\* of a's field built from c, for each of +, -, * and / (stated as the claim
\* makes it; the code does not satisfy it for /).
C13_IntOperandIsLifted ==
    /\ call.name = "__add__(int)" =>
          ret = Ok(Add(field, call.a, ElemInt(field, call.e).val))
    /\ call.name = "__sub__(int)" =>
          ret = Ok(Sub(field, call.a, ElemInt(field, call.e).val))
    /\ call.name = "__mul__(int)" =>
          ret = Mul(field, call.a, ElemInt(field, call.e).val)
    /\ call.name = "__truediv__(int)" =>
          ret = Div(field, call.a, ElemInt(field, call.e).val)

\* C16: for every element a, zero included, and every exponent e >= 0, zero
\* included, a**e returns, with and without the log table, the element that
\* repeated multiplication from 1 gives, and raises nothing (stated as the
\* claim makes it; the code does not satisfy it).
C16_PowAgreesWithRepeatedMul ==
    (call.name = "__pow__" /\ call.e >= 0)
       => ret = Ok(PowLoop(field, One(field), call.a, call.e))

\* with a log table, a step leaves the field as it is, and a call of
\* find_primitive_elem() returns the primitive element the field has
KeepsLogTable ==
    field.has_log_table =>
       /\ field'.primitive_elem = field.primitive_elem
       /\ field'.log_table = field.log_table
       /\ field'.inverse_log_table = field.inverse_log_table
       /\ field'.has_log_table
       /\ call'.name = "find_primitive_elem" =>
             ret' = Ok(field.primitive_elem)

\* C18: once has_log_table() is true, every element construction,
\* arithmetic operation, log or inverse_log lookup and further
\* find_primitive_elem() leaves primitive_elem, the log table and the
\* inverse log table unchanged, and a repeated find_primitive_elem()
\* returns the same primitive element.
C18_LogTableIsStable == [][KeepsLogTable]_vars

\* find_primitive_elem() was called on a field of 9 elements that had its
\* primitive element and its log table before the call
C18_Witness ==
    /\ call.name = "find_primitive_elem"
    /\ call.a # <<>>
    /\ field.q = 9
    /\ field.has_log_table
    /\ ret = Ok(call.a)
    /\ field.log_table[call.a] = LInt(1)

(***************************************************************************)
(* Further properties of the Reed-Solomon code                             *)
(***************************************************************************)

\* C14: ReedSolomonCode(field, n, k, eval_points) raises the validation
\* error whenever n is above the field size q, also with n evaluation
\* points, and no code with n > q exists (stated as the claim makes it; the
\* code does not satisfy it).
C14_RejectsLengthAboveFieldSize ==
    /\ (call.name = "ReedSolomonCode" /\ call.e > field.q) =>
          ret.exc = "ValueError"
    /\ rs # NoCode => rs.n <= field.q

\* C15: when decode finds Q and E for a hypothesis e and poly_div(Q, E)
\* leaves a non-empty remainder, decode raises: it neither tries a smaller e
\* nor returns a result (stated as the claim makes it; the code does not
\* satisfy it).
C15_RemainderIsFatal ==
    (/\ call.name = "decode"
     /\ DidNotDivide(field, rs, call.a, (rs.n - rs.k) \div 2) # {})
       => ret.exc # "none"

\* every codeword of the code differs from the word w in more than
\* floor((n-k)/2) positions
FarFromEveryCodeword(F, code, w) ==
    \A plaintext \in Lists(F, code.k) :
       Cardinality(Differ(Codeword(F, code, plaintext), w)) > Capacity(code)

\* C19: when decode(w) returns, the codeword it returns differs from w in at
\* most floor((n-k)/2) of the n positions; a word w farther than that from
\* every codeword makes decode raise "No decoding found!" (the second half
\* is evaluated for the codes with k <= 2, whose codewords are listed;
\* stated as the claim makes it; the code does not satisfy it).
C19_DecodeStaysWithinCapacity ==
    call.name = "decode" =>
       /\ ret.exc = "none" =>
             Cardinality(Differ(ret.val, call.a)) <= Capacity(rs)
       /\ (rs.k <= 2 /\ FarFromEveryCodeword(field, rs, call.a)) =>
             ret = RaiseMsg("ValueError", "No decoding found!")

====
